---- MODULE Spec2Model ----
(***************************************************************************)
(* Support-ticket lifecycle of the customer-engagement backend:            *)
(* backend/models/SupportRequest.js (schema, pre('save') hook, instance    *)
(* methods) and backend/routes/supportRoutes.js (request handlers).        *)
(*                                                                         *)
(* Time is counted in whole hours since 2024-01-31T00:00, so that the      *)
(* month used by the ticket-number generator changes inside the window     *)
(* the model explores.                                                     *)
(***************************************************************************)
EXTENDS Integers, Sequences, FiniteSets, TLC

VARIABLES
    store,      \* the SupportRequest collection: document id -> document
    nextId,     \* the next document id the driver hands out
    now,        \* the wall clock (new Date()), in hours
    inflight,   \* creations whose document is built and hooked, awaiting the insert
    last,       \* the last operation: what was called, on what, and how it ended
    reopens,    \* per document: the number of reopen calls that were accepted
    payments,   \* the Payment collection: document id -> document
    failures,   \* per payment: the number of updateStatus('failed') calls
    wasSuccess  \* per payment: whether it was ever stored with status success

ticketVars == <<store, nextId, inflight, reopens>>
payVars == <<payments, failures, wasSuccess>>
vars == <<store, nextId, now, inflight, last, reopens, payments, failures, wasSuccess>>

----------------------------------------------------------------------------
(* Bounds of the exploration *)

MaxTickets == 2
MaxNow == 25
MaxComments == 1
MaxReopens == 1
MaxAttempts == 4

TickSteps == {25}

----------------------------------------------------------------------------
(* Values *)

Null == -1
Undefined == "undefined"

Customers == {"c1", "c2"}
Admins == {"a1"}
Users == Customers \cup Admins
\* the customers who file tickets, and the priorities they file them with,
\* in the runs of the lifecycle specification
Requesters == {"c1"}
LifecyclePriorities == {"urgent", "low"}
Agents == {"a1", "a2"}
Priorities == {"low", "medium", "high", "urgent"}
Statuses == {"open", "in_review", "pending_customer", "resolved", "closed"}
CommentTexts == {"hello"}
ResolutionTexts == {"fixed", "patched"}
Reasons == {Undefined, "still broken"}
Ratings == {<<1, Undefined>>, <<5, "thanks">>}

Abs(n) == IF n < 0 THEN 0 - n ELSE n

\* JavaScript truthiness of an optional string field and of an optional
\* date field
FalsyText(v) == v = Undefined
FalsyDate(v) == v = Null

EmptyResolution == [text |-> Undefined, resolvedBy |-> Undefined, resolvedAt |-> Null]
EmptyRating == [score |-> Null, feedback |-> Undefined, ratedAt |-> Null]
EmptySla ==
    [responseTime |-> Null, resolutionTime |-> Null, breached |-> FALSE,
     responseDeadline |-> Null, resolutionDeadline |-> Null]

\* new SupportRequest({...}): the schema defaults applied to the given fields
NewDocument(customerId, ticketNumber, priority) ==
    [customerId |-> customerId,
     ticketNumber |-> ticketNumber,
     priority |-> IF priority = Undefined THEN "medium" ELSE priority,
     status |-> "open",
     assignedTo |-> Undefined,
     comments |-> << >>,
     resolution |-> EmptyResolution,
     rating |-> EmptyRating,
     sla |-> EmptySla,
     firstResponseAt |-> Null,
     closedAt |-> Null,
     reopenedCount |-> 0,
     lastReopenedAt |-> Null,
     createdAt |-> Null]

----------------------------------------------------------------------------
(* The pre('save') hook *)

\* Date.getFullYear() / getMonth() + 1 of the clock value t
FebruaryStart == 24
YearOf(t) == 2024
MonthOf(t) == IF t < FebruaryStart THEN 1 ELSE 2

\* String(n).padStart(width, '0')
PadStart(s, width) ==
    LET RECURSIVE pad(_)
        pad(x) == IF Len(x) < width THEN pad("0" \o x) ELSE x
    IN pad(s)

\* `TKT${year}${month}${sequential}`
GenerateTicketNumber(count, t) ==
    "TKT" \o ToString(YearOf(t)) \o PadStart(ToString(MonthOf(t)), 2)
          \o PadStart(ToString(count + 1), 5)

\* the response hours of urgent and high exchanged
ResponseHoursExchanged(priority) ==
    CASE priority = "urgent" -> 4
      [] priority = "high" -> 2
      [] priority = "medium" -> 24
      [] priority = "low" -> 48
      [] OTHER -> 24

ResponseHours(priority) ==
    CASE priority = "urgent" -> 2
      [] priority = "high" -> 4
      [] priority = "medium" -> 24
      [] priority = "low" -> 48
      [] OTHER -> 24

ResolutionHours(priority) ==
    CASE priority = "urgent" -> 24
      [] priority = "high" -> 48
      [] priority = "medium" -> 72
      [] priority = "low" -> 120
      [] OTHER -> 72

\* c.author.role: comment authors are stored as bare ids (never populated
\* on a document that is saved), and an id has no role property
AuthorRole(author) == Undefined

\* req.user.role of an authenticated caller
Role(user) == IF user \in Admins THEN "admin" ELSE "customer"

\* the number generated again on every save
HookTicketNumberEverySave(d, isNew, count, t) ==
    [d EXCEPT !.ticketNumber = GenerateTicketNumber(count, t)]

HookTicketNumber(d, isNew, count, t) ==
    IF isNew /\ FalsyText(d.ticketNumber)
    THEN [d EXCEPT !.ticketNumber = GenerateTicketNumber(count, t)]
    ELSE d

\* the deadlines recomputed on every save, not only on the first
HookSlaDeadlinesEverySave(d, isNew, t) ==
    [d EXCEPT !.sla.responseDeadline = t + ResponseHours(d.priority),
              !.sla.resolutionDeadline = t + ResolutionHours(d.priority)]

HookSlaDeadlines(d, isNew, t) ==
    IF isNew
    THEN [d EXCEPT !.sla.responseDeadline = t + ResponseHours(d.priority),
                   !.sla.resolutionDeadline = t + ResolutionHours(d.priority)]
    ELSE d

HookFirstResponse(d) ==
    IF Len(d.comments) > 0 /\ FalsyDate(d.firstResponseAt)
    THEN LET adminComments ==
                 SelectSeq(d.comments,
                           LAMBDA c : ~c.isInternal \/ AuthorRole(c.author) = "admin")
         IN IF Len(adminComments) > 0
            THEN [d EXCEPT !.firstResponseAt = adminComments[1].createdAt,
                           !.sla.responseTime =
                               Abs(adminComments[1].createdAt - d.createdAt)]
            ELSE d
    ELSE d

HookResolution(d, t) ==
    IF d.status = "resolved" /\ FalsyDate(d.resolution.resolvedAt)
    THEN [d EXCEPT !.resolution.resolvedAt = t,
                   !.sla.resolutionTime = Abs(t - d.createdAt)]
    ELSE d

HookClosure(d, t) ==
    IF d.status = "closed" /\ FalsyDate(d.closedAt)
    THEN [d EXCEPT !.closedAt = t]
    ELSE d

\* the breach test reading the response deadline only
HookBreachResponseOnly(d, t) ==
    IF ~FalsyDate(d.sla.responseDeadline) /\ t > d.sla.responseDeadline
       /\ FalsyDate(d.firstResponseAt)
    THEN [d EXCEPT !.sla.breached = TRUE]
    ELSE d

\* the breach test writing the flag either way
HookBreachRecomputed(d, t) ==
    LET late1 == ~FalsyDate(d.sla.responseDeadline) /\ t > d.sla.responseDeadline
                 /\ FalsyDate(d.firstResponseAt)
        late2 == ~FalsyDate(d.sla.resolutionDeadline) /\ t > d.sla.resolutionDeadline
                 /\ d.status # "resolved" /\ d.status # "closed"
    IN [d EXCEPT !.sla.breached = late1 \/ late2]

HookBreach(d, t) ==
    LET late1 == ~FalsyDate(d.sla.responseDeadline) /\ t > d.sla.responseDeadline
                 /\ FalsyDate(d.firstResponseAt)
        late2 == ~FalsyDate(d.sla.resolutionDeadline) /\ t > d.sla.resolutionDeadline
                 /\ d.status # "resolved" /\ d.status # "closed"
    IN IF late1 \/ late2 THEN [d EXCEPT !.sla.breached = TRUE] ELSE d

\* timestamps: true sets createdAt when a new document is saved
Timestamps(d, isNew, t) == IF isNew THEN [d EXCEPT !.createdAt = t] ELSE d

PreSave(d, isNew, count, t) ==
    HookBreach(
      HookClosure(
        HookResolution(
          HookFirstResponse(
            HookSlaDeadlines(
              HookTicketNumber(Timestamps(d, isNew, t), isNew, count, t),
              isNew, t)),
          t),
        t),
      t)

----------------------------------------------------------------------------
(* The store *)

Ids == DOMAIN store
CountDocuments == Cardinality(Ids)

\* ticketNumber: { required: true }. Validation runs before the save hooks;
\* the hook leaves a ticketNumber that is given as it is, so for the documents
\* the handlers build the test reads the same on the hooked document
Valid(d) == ~FalsyText(d.ticketNumber)

\* a collection without the unique index
NoUniqueIndex(d) == FALSE

\* ticketNumber: { unique: true }
DuplicateKey(d) == \E i \in Ids : store[i].ticketNumber = d.ticketNumber

Put(id, d) == [i \in Ids \cup {id} |-> IF i = id THEN d ELSE store[i]]

----------------------------------------------------------------------------
(* Instance methods: the document each one saves *)

AddCommentDoc(d, text, authorId, isInternal, t) ==
    PreSave([d EXCEPT !.comments = Append(@,
                 [text |-> text, author |-> authorId,
                  isInternal |-> isInternal, createdAt |-> t])],
            FALSE, 0, t)

\* assignToAgent keeping the status of a ticket that is resolved or closed
AssignToAgentDocKeepsResolved(d, agentId, t) ==
    PreSave([d EXCEPT !.assignedTo = agentId,
                      !.status = IF @ \in {"resolved", "closed"} THEN @ ELSE "in_review"],
            FALSE, 0, t)

AssignToAgentDoc(d, agentId, t) ==
    PreSave([d EXCEPT !.assignedTo = agentId, !.status = "in_review"], FALSE, 0, t)

ResolveDoc(d, resolutionText, resolvedById, t) ==
    PreSave([d EXCEPT !.status = "resolved",
                      !.resolution = [text |-> resolutionText,
                                      resolvedBy |-> resolvedById,
                                      resolvedAt |-> t]],
            FALSE, 0, t)

\* reopen accepting a ticket that is in review as well
ReopenAcceptsInReview(d) ==
    d.status = "closed" \/ d.status = "resolved" \/ d.status = "in_review"

ReopenAccepts(d) == d.status = "closed" \/ d.status = "resolved"

\* reopen that forgets to count
ReopenDocKeepsCount(d, reason, t) ==
    IF ReopenAccepts(d)
    THEN PreSave([d EXCEPT !.status = "open", !.lastReopenedAt = t,
                           !.resolution = EmptyResolution],
                 FALSE, 0, t)
    ELSE PreSave(d, FALSE, 0, t)

\* reopen writing its comment as an internal one
ReopenDocInternalComment(d, reason, t) ==
    IF ReopenAccepts(d)
    THEN LET d1 == [d EXCEPT !.status = "open",
                             !.reopenedCount = @ + 1,
                             !.lastReopenedAt = t,
                             !.resolution = EmptyResolution]
             d2 == IF ~FalsyText(reason)
                   THEN [d1 EXCEPT !.comments = Append(@,
                            [text |-> "Ticket reopened: " \o reason,
                             author |-> d.customerId,
                             isInternal |-> TRUE, createdAt |-> t])]
                   ELSE d1
         IN PreSave(d2, FALSE, 0, t)
    ELSE PreSave(d, FALSE, 0, t)

ReopenDoc(d, reason, t) ==
    IF ReopenAccepts(d)
    THEN LET d1 == [d EXCEPT !.status = "open",
                             !.reopenedCount = @ + 1,
                             !.lastReopenedAt = t,
                             !.resolution = EmptyResolution]
             d2 == IF ~FalsyText(reason)
                   THEN [d1 EXCEPT !.comments = Append(@,
                            [text |-> "Ticket reopened: " \o reason,
                             author |-> d.customerId,
                             isInternal |-> FALSE, createdAt |-> t])]
                   ELSE d1
         IN PreSave(d2, FALSE, 0, t)
    ELSE PreSave(d, FALSE, 0, t)

\* addRating refusing open tickets only
AddRatingThrowsOnlyOpen(d) == d.status = "open"

AddRatingThrows(d) == d.status # "resolved" /\ d.status # "closed"

AddRatingDoc(d, score, feedback, t) ==
    PreSave([d EXCEPT !.rating = [score |-> score, feedback |-> feedback,
                                  ratedAt |-> t]],
            FALSE, 0, t)

----------------------------------------------------------------------------
(* Operations *)

\* what `last` records: the operation, the document it addressed, how it
\* ended, the status the document had before, and the arguments of the call
Outcome(op, id, result, from, arg) ==
    [op |-> op, id |-> id, result |-> result, from |-> from, arg |-> arg]

Init ==
    /\ store = << >>
    /\ nextId = 1
    /\ now = 0
    /\ inflight = {}
    /\ last = Outcome("none", 0, "ok", Undefined, << >>)
    /\ reopens = << >>
    /\ payments = << >>
    /\ failures = << >>
    /\ wasSuccess = << >>

Tick ==
    \E d \in TickSteps :
        /\ now + d <= MaxNow
        /\ now' = now + d
        /\ UNCHANGED <<store, nextId, inflight, last, reopens>>
        /\ UNCHANGED payVars

\* POST /requests, up to the point where save() sends the insert: the
\* handler builds the document with ticketNumber 'temp', validation and the
\* pre-save hook run
BuildRequest(c, p, count, t) == PreSave(NewDocument(c, "temp", p), TRUE, count, t)

\* the insert of a new document, under the unique index on ticketNumber
Insert(id, d) ==
    IF Valid(d) /\ ~DuplicateKey(d)
    THEN /\ store' = Put(id, d)
         /\ reopens' = [i \in Ids \cup {id} |-> IF i = id THEN 0 ELSE reopens[i]]
         /\ last' = Outcome("create", id, "ok", Undefined, <<d.priority>>)
    ELSE /\ last' = Outcome("create", id, "error", Undefined, <<d.priority>>)
         /\ UNCHANGED <<store, reopens>>

\* POST /requests with no other request in between, the collection holding
\* up to n tickets, the body naming one of priorities
CreateRequestUpTo(n, priorities) ==
    \E c \in Requesters, p \in priorities :
        /\ nextId <= n
        /\ Insert(nextId, BuildRequest(c, p, CountDocuments, now))
        /\ nextId' = IF last'.result = "ok" THEN nextId + 1 ELSE nextId
        /\ UNCHANGED <<now, inflight>>
        /\ UNCHANGED payVars

CreateRequest == CreateRequestUpTo(MaxTickets, LifecyclePriorities)

\* POST /requests as two steps, other requests running in between
CreateStart ==
    \E c \in Requesters, p \in Priorities \cup {Undefined} :
        /\ nextId <= MaxTickets
        /\ inflight' = inflight \cup
               {[id |-> nextId, doc |-> BuildRequest(c, p, CountDocuments, now)]}
        /\ nextId' = nextId + 1
        /\ UNCHANGED <<store, now, last, reopens>>
        /\ UNCHANGED payVars

CreateSave ==
    \E r \in inflight :
        /\ Insert(r.id, r.doc)
        /\ inflight' = inflight \ {r}
        /\ UNCHANGED <<nextId, now>>
        /\ UNCHANGED payVars

AddComment ==
    \E id \in Ids, text \in CommentTexts, a \in Users, internal \in BOOLEAN :
        /\ a \in Admins \/ a = store[id].customerId
        /\ internal => a \in Admins
        /\ Len(store[id].comments) < MaxComments
        /\ store' = Put(id, AddCommentDoc(store[id], text, a, internal, now))
        /\ last' = Outcome("addComment", id, "ok", store[id].status,
                           <<text, a, internal>>)
        /\ UNCHANGED <<nextId, now, inflight, reopens>>
        /\ UNCHANGED payVars

AssignToAgent ==
    \E id \in Ids, agent \in Agents :
        /\ store' = Put(id, AssignToAgentDoc(store[id], agent, now))
        /\ last' = Outcome("assignToAgent", id, "ok", store[id].status, <<agent>>)
        /\ UNCHANGED <<nextId, now, inflight, reopens>>
        /\ UNCHANGED payVars

Resolve ==
    \E id \in Ids, text \in ResolutionTexts, by \in Admins :
        /\ store' = Put(id, ResolveDoc(store[id], text, by, now))
        /\ last' = Outcome("resolve", id, "ok", store[id].status, <<text, by>>)
        /\ UNCHANGED <<nextId, now, inflight, reopens>>
        /\ UNCHANGED payVars

\* ticket.reopen(reason) and what is remembered of the call, who naming the
\* caller where the caller is followed
ReopenStepAs(id, reason, op, who) ==
    /\ store[id].status \in {"resolved", "closed"} =>
           /\ store[id].reopenedCount < MaxReopens
           /\ ~FalsyText(reason) => Len(store[id].comments) < MaxComments
    /\ store' = Put(id, ReopenDoc(store[id], reason, now))
    /\ reopens' = [reopens EXCEPT ![id] =
                      IF store[id].status \in {"resolved", "closed"}
                      THEN @ + 1 ELSE @]
    /\ last' = Outcome(op, id, "ok", store[id].status, who \o <<reason>>)

ReopenStep(id, reason, op) == ReopenStepAs(id, reason, op, << >>)

Reopen ==
    \E id \in Ids, reason \in Reasons :
        /\ ReopenStep(id, reason, "reopen")
        /\ UNCHANGED <<nextId, now, inflight>>
        /\ UNCHANGED payVars

AddRating ==
    \E id \in Ids, r \in Ratings :
        /\ IF AddRatingThrows(store[id])
           THEN /\ last' = Outcome("addRating", id, "error", store[id].status, r)
                /\ UNCHANGED store
           ELSE /\ store' = Put(id, AddRatingDoc(store[id], r[1], r[2], now))
                /\ last' = Outcome("addRating", id, "ok", store[id].status, r)
        /\ UNCHANGED <<nextId, now, inflight, reopens>>
        /\ UNCHANGED payVars

\* findByIdAndUpdate(id, { $set: updates }): written straight to the stored
\* document, no save hook runs. Of the fields a body may carry, the status
\* is the one followed here
SetFields(d, updates) == [d EXCEPT !.status = updates.status]

\* PUT /requests/:id called with id and body by caller, who naming the
\* caller where the caller is followed
PutRequest(id, caller, body, who) ==
    /\ IF id \notin Ids
       THEN /\ last' = Outcome("update", id, "not_found", Undefined, who)
            /\ UNCHANGED <<store, reopens>>
       ELSE LET ticket == store[id]
                isOwner == ticket.customerId = caller
                isAdmin == Role(caller) = "admin"
            IN IF ~isOwner /\ ~isAdmin
               THEN /\ last' = Outcome("update", id, "forbidden", ticket.status, who)
                    /\ UNCHANGED <<store, reopens>>
               ELSE IF isAdmin
               THEN /\ store' = Put(id, SetFields(ticket, body))
                    /\ last' = Outcome("update", id, "ok", ticket.status,
                                       who \o <<body.status>>)
                    /\ UNCHANGED reopens
               ELSE IF body.status = "open"
                       /\ (ticket.status = "resolved" \/ ticket.status = "closed")
               THEN ReopenStepAs(id, "Customer reopened the ticket",
                                 "update_reopen", who)
               ELSE /\ last' = Outcome(IF body.status = "open"
                                       THEN "update_reopen" ELSE "update",
                                       id, "forbidden", ticket.status, who)
                    /\ UNCHANGED <<store, reopens>>
    /\ UNCHANGED <<nextId, now, inflight>>
    /\ UNCHANGED payVars

\* PUT /requests/:id, called with one of the given ids by one of the given
\* users
UpdateRequestBy(ids, callers) ==
    \E id \in ids, caller \in callers, body \in [status : Statuses] :
        PutRequest(id, caller, body, << >>)

\* PUT /requests/:id of a stored ticket by a customer
CustomerUpdate == UpdateRequestBy(Ids, Customers)

\* PUT /requests/:id by any authenticated user
UpdateRequest == UpdateRequestBy(1..MaxTickets, Users)

----------------------------------------------------------------------------
(* The ticket routes, the caller followed *)

\* the ticket ids a request may name: the one ticket stored in these runs
\* and one that is never stored
RequestIds == {1, 2}
\* the bodies of the requests: one resolution text, one agent, one rating,
\* two statuses
RouteTexts == {"fixed"}
RouteAgents == {"a2"}
RouteRatings == {<<5, "thanks">>}
RouteStatuses == {"open", "closed"}

\* a role check that admits every authenticated caller
AuthorizeAnyRole(caller, roles) == TRUE

\* authorizeRoles(...roles), after authenticateToken
AuthorizeRoles(caller, roles) == Role(caller) \in roles

\* a check of the owner that admits every caller
IsOwnerAnyone(ticket, caller) == TRUE

\* ticket.customerId.toString() === req.userId.toString()
IsOwner(ticket, caller) == ticket.customerId = caller

\* the answer of a route that changes nothing
Refuse(op, id, result, who) ==
    /\ last' = Outcome(op, id, result,
                       IF id \in Ids THEN store[id].status ELSE Undefined, who)
    /\ UNCHANGED store

CreateOneRequest == CreateRequestUpTo(1, {"urgent"})

\* PUT /requests/:id/resolve
ResolveRoute ==
    \E id \in RequestIds, caller \in Users, text \in RouteTexts :
        /\ IF ~AuthorizeRoles(caller, {"admin"})
           THEN Refuse("resolve", id, "forbidden", <<caller>>)
           ELSE IF id \notin Ids
           THEN Refuse("resolve", id, "not_found", <<caller>>)
           ELSE /\ store' = Put(id, ResolveDoc(store[id], text, caller, now))
                /\ last' = Outcome("resolve", id, "ok", store[id].status,
                                   <<caller, text>>)
        /\ UNCHANGED <<nextId, now, inflight, reopens>>
        /\ UNCHANGED payVars

\* PUT /requests/:id/assign
AssignRoute ==
    \E id \in RequestIds, caller \in Users, agent \in RouteAgents :
        /\ IF ~AuthorizeRoles(caller, {"admin"})
           THEN Refuse("assignToAgent", id, "forbidden", <<caller>>)
           ELSE IF id \notin Ids
           THEN Refuse("assignToAgent", id, "not_found", <<caller>>)
           ELSE /\ store' = Put(id, AssignToAgentDoc(store[id], agent, now))
                /\ last' = Outcome("assignToAgent", id, "ok", store[id].status,
                                   <<caller, agent>>)
        /\ UNCHANGED <<nextId, now, inflight, reopens>>
        /\ UNCHANGED payVars

\* POST /requests/:id/rating
RatingRoute ==
    \E id \in RequestIds, caller \in Users, r \in RouteRatings :
        /\ IF id \notin Ids
           THEN Refuse("addRating", id, "not_found", <<caller>>)
           ELSE IF ~IsOwner(store[id], caller)
           THEN Refuse("addRating", id, "forbidden", <<caller>>)
           ELSE IF AddRatingThrows(store[id])
           THEN Refuse("addRating", id, "error", <<caller>>)
           ELSE /\ store' = Put(id, AddRatingDoc(store[id], r[1], r[2], now))
                /\ last' = Outcome("addRating", id, "ok", store[id].status,
                                   <<caller>> \o r)
        /\ UNCHANGED <<nextId, now, inflight, reopens>>
        /\ UNCHANGED payVars

\* POST /requests/:id/comments
CommentRoute ==
    \E id \in RequestIds, caller \in Users, text \in CommentTexts,
       internal \in BOOLEAN :
        /\ IF id \notin Ids
           THEN Refuse("addComment", id, "not_found", <<caller>>)
           ELSE IF ~IsOwner(store[id], caller) /\ Role(caller) # "admin"
           THEN Refuse("addComment", id, "forbidden", <<caller>>)
           ELSE /\ Len(store[id].comments) < MaxComments
                /\ store' = Put(id, AddCommentDoc(store[id], text, caller,
                                                  Role(caller) = "admin" /\ internal,
                                                  now))
                /\ last' = Outcome("addComment", id, "ok", store[id].status,
                                   <<caller, text>>)
        /\ UNCHANGED <<nextId, now, inflight, reopens>>
        /\ UNCHANGED payVars

\* PUT /requests/:id
UpdateRoute ==
    \E id \in RequestIds, caller \in Users, body \in [status : RouteStatuses] :
        PutRequest(id, caller, body, <<caller>>)

\* the status a list request may ask for
ListStatuses == {Undefined, "open"}

\* GET /requests/:id: the ticket as sent, internal comments taken out for a
\* customer
GetRequestData(ticket, caller) ==
    IF Role(caller) = "customer"
    THEN [ticket EXCEPT !.comments = SelectSeq(@, LAMBDA c : ~c.isInternal)]
    ELSE ticket

\* GET /requests: the tickets found by the filter, as sent
ListRequestsData(caller, status) ==
    {store[i] : i \in {j \in Ids :
        /\ Role(caller) = "customer" => store[j].customerId = caller
        /\ status # Undefined => store[j].status = status}}

\* GET /requests/:id
GetRoute ==
    \E id \in RequestIds, caller \in Users :
        /\ IF id \notin Ids
           THEN Refuse("get", id, "not_found", <<caller>>)
           ELSE IF ~IsOwner(store[id], caller) /\ Role(caller) # "admin"
           THEN Refuse("get", id, "forbidden", <<caller>>)
           ELSE /\ last' = Outcome("get", id, "ok", store[id].status, <<caller>>)
                /\ UNCHANGED store
        /\ UNCHANGED <<nextId, now, inflight, reopens>>
        /\ UNCHANGED payVars

\* GET /requests
ListRoute ==
    \E caller \in Users, status \in ListStatuses :
        /\ last' = Outcome("list", 0, "ok", Undefined, <<caller, status>>)
        /\ UNCHANGED <<store, nextId, now, inflight, reopens>>
        /\ UNCHANGED payVars

\* the tickets in the data of the response to the last request: the routes
\* that answer with a ticket send the document read back after the operation
ResponseData ==
    IF last.result # "ok" THEN {}
    ELSE IF last.op = "get"
    THEN {GetRequestData(store[last.id], last.arg[1])}
    ELSE IF last.op = "list"
    THEN ListRequestsData(last.arg[1], last.arg[2])
    ELSE IF last.op \in {"addComment", "addRating", "update", "update_reopen",
                         "resolve", "assignToAgent"}
    THEN {store[last.id]}
    ELSE {}

\* DELETE /requests/:id by an admin: findByIdAndDelete
DeleteRequest ==
    \E id \in RequestIds, caller \in Admins :
        /\ IF id \notin Ids
           THEN /\ last' = Outcome("delete", id, "not_found", Undefined, <<caller>>)
                /\ UNCHANGED <<store, reopens>>
           ELSE /\ store' = [i \in Ids \ {id} |-> store[i]]
                /\ reopens' = [i \in Ids \ {id} |-> reopens[i]]
                /\ last' = Outcome("delete", id, "ok", store[id].status, <<caller>>)
        /\ UNCHANGED <<nextId, now, inflight>>
        /\ UNCHANGED payVars

----------------------------------------------------------------------------
(* PUT /requests/:id reopening a ticket, as the two steps of the handler:
   findById, then reopen() with its save; other requests run in between *)

\* the requests that may be under way at once
RaceRequests == {1, 2}

\* save() of a loaded document: the paths changed on the copy are written
\* over the stored document, a comment pushed on the copy is pushed on it
SaveModified(stored, loaded, mutated) ==
    [f \in DOMAIN stored |->
        IF f = "comments"
        THEN stored.comments
               \o SubSeq(mutated.comments, Len(loaded.comments) + 1,
                         Len(mutated.comments))
        ELSE IF mutated[f] # loaded[f] THEN mutated[f] ELSE stored[f]]

\* SupportRequest.findById(req.params.id) of the handler
ReopenLoad ==
    \E req \in RaceRequests, id \in Ids :
        /\ \A r \in inflight : r.req # req
        /\ Cardinality(inflight) + reopens[id] < Cardinality(RaceRequests)
        /\ inflight' = inflight \cup {[req |-> req, id |-> id, doc |-> store[id]]}
        /\ last' = Outcome("findById", id, "ok", store[id].status, <<req>>)
        /\ UNCHANGED <<store, nextId, now, reopens>>
        /\ UNCHANGED payVars

\* the rest of the handler, on the document it loaded: the test of the
\* status, ticket.reopen('Customer reopened the ticket') and its save
ReopenSave ==
    \E r \in inflight :
        /\ IF r.doc.status = "resolved" \/ r.doc.status = "closed"
           THEN /\ store' = Put(r.id,
                                SaveModified(store[r.id], r.doc,
                                             ReopenDoc(r.doc,
                                                 "Customer reopened the ticket",
                                                 now)))
                /\ reopens' = [reopens EXCEPT ![r.id] = @ + 1]
                /\ last' = Outcome("update_reopen", r.id, "ok", r.doc.status,
                                   <<r.req>>)
           ELSE /\ last' = Outcome("update_reopen", r.id, "forbidden",
                                   r.doc.status, <<r.req>>)
                /\ UNCHANGED <<store, reopens>>
        /\ inflight' = inflight \ {r}
        /\ UNCHANGED <<nextId, now>>
        /\ UNCHANGED payVars

----------------------------------------------------------------------------
(* Payments: the Payment model and the payment routes *)

\* the document ids the Payment collection hands out: one payment where the
\* methods of the model are followed, two where the routes are
PaymentSlots == {1}
ApiSlots == {1, 2}
PayAmounts == {100}
RefundAmounts == {50, 100, 150}
RefundReasons == {"duplicate"}
PayMethods == {"card", "cash"}
AllMethods == {"card", "bank_transfer", "upi", "cash", "cheque"}
OnlineMethods == {"card", "upi"}
PaymentStatuses == {"pending", "processing", "success", "failed", "refunded"}
\* the details updateStatus is called with
StatusDetails ==
    {[paymentId |-> Undefined, signature |-> Undefined, reason |-> "declined"],
     [paymentId |-> "pay_1", signature |-> "sig_1", reason |-> Undefined]}
\* req.body.signature of POST /verify, which is optional
Signatures == {Undefined, "sig_1"}
\* Math.floor(Math.random() * 10000): the values followed
Randoms == {7, 8}

EmptyRefund == [amount |-> Null, reason |-> Undefined, date |-> Null, status |-> Undefined]

\* a gateway order attached whatever the method
NewPaymentOrderForAll(id, customerId, amount, method) ==
    [customerId |-> customerId,
     amount |-> amount,
     method |-> method,
     provider |-> "razorpay",
     orderId |-> id,
     paymentId |-> Undefined,
     signature |-> Undefined,
     status |-> "pending",
     receiptNumber |-> Undefined,
     invoiceNumber |-> Undefined,
     refundDetails |-> EmptyRefund,
     failureReason |-> Undefined,
     paidAt |-> Null,
     attempts |-> 0]

\* new Payment({...}) of POST /initiate, with the schema defaults; the order
\* id of an online payment is written as the number of the document
NewPayment(id, customerId, amount, method) ==
    [customerId |-> customerId,
     amount |-> amount,
     method |-> method,
     provider |-> "razorpay",
     orderId |-> IF method \in OnlineMethods THEN id ELSE Null,
     paymentId |-> Undefined,
     signature |-> Undefined,
     status |-> "pending",
     receiptNumber |-> Undefined,
     invoiceNumber |-> Undefined,
     refundDetails |-> EmptyRefund,
     failureReason |-> Undefined,
     paidAt |-> Null,
     attempts |-> 0]

\* `REC${year}${month}${random}`
GenerateReceiptNumber(t, random) ==
    "REC" \o ToString(YearOf(t)) \o PadStart(ToString(MonthOf(t)), 2)
          \o PadStart(ToString(random), 4)

\* the receipt generated again on every save of a successful payment
PayHookReceiptEverySave(d, t, random) ==
    IF d.status = "success"
    THEN [d EXCEPT !.receiptNumber = GenerateReceiptNumber(t, random), !.paidAt = t]
    ELSE d

PayHookReceipt(d, t, random) ==
    IF d.status = "success" /\ FalsyText(d.receiptNumber)
    THEN [d EXCEPT !.receiptNumber = GenerateReceiptNumber(t, random), !.paidAt = t]
    ELSE d

\* this.isModified('status') && this.status === 'failed'
PayHookAttempts(d, statusModified) ==
    IF statusModified /\ d.status = "failed"
    THEN [d EXCEPT !.attempts = @ + 1]
    ELSE d

\* paymentSchema.pre('save'); loaded is the status the document was read with
PayPreSave(d, loaded, t, random) ==
    PayHookAttempts(PayHookReceipt(d, t, random), d.status # loaded)

PayIds == DOMAIN payments

\* a collection without the unique index on receiptNumber
NoReceiptIndex(id, d) == FALSE

\* receiptNumber: { unique: true, sparse: true }
ReceiptTaken(id, d) ==
    /\ d.receiptNumber # Undefined
    /\ \E i \in PayIds \ {id} : payments[i].receiptNumber = d.receiptNumber

PayPut(id, d) == [i \in PayIds \cup {id} |-> IF i = id THEN d ELSE payments[i]]

\* updateStatus storing nothing of the details of a success
UpdateStatusSetDropsGatewayIds(d, status, details, t) ==
    LET d1 == [d EXCEPT !.status = status]
    IN IF status = "success"
       THEN [d1 EXCEPT !.paidAt = t]
       ELSE IF status = "failed"
       THEN [d1 EXCEPT !.failureReason = IF FalsyText(details.reason)
                                         THEN "Payment failed" ELSE details.reason,
                       !.attempts = @ + 1]
       ELSE d1

\* methods.updateStatus(status, details), up to the save
UpdateStatusSet(d, status, details, t) ==
    LET d1 == [d EXCEPT !.status = status]
    IN IF status = "success"
       THEN [d1 EXCEPT !.paidAt = t,
                       !.paymentId = IF FalsyText(details.paymentId)
                                     THEN @ ELSE details.paymentId,
                       !.signature = IF FalsyText(details.signature)
                                     THEN @ ELSE details.signature]
       ELSE IF status = "failed"
       THEN [d1 EXCEPT !.failureReason = IF FalsyText(details.reason)
                                         THEN "Payment failed" ELSE details.reason,
                       !.attempts = @ + 1]
       ELSE d1

\* the document updateStatus saves
UpdateStatusDoc(d, status, details, t, random) ==
    PayPreSave(UpdateStatusSet(d, status, details, t), d.status, t, random)

\* initiateRefund checking the status only
InitiateRefundThrowsStatusOnly(d, amount) == d.status # "success"

InitiateRefundThrows(d, amount) == d.status # "success" \/ amount > d.amount

\* the document initiateRefund saves
InitiateRefundDoc(d, amount, reason, t, random) ==
    PayPreSave([d EXCEPT !.refundDetails =
                   [amount |-> amount, reason |-> reason,
                    date |-> t, status |-> "initiated"]],
               d.status, t, random)

\* the write of a payment document and of what is remembered about it
PayStore(id, d) ==
    /\ payments' = PayPut(id, d)
    /\ wasSuccess' = [i \in PayIds \cup {id} |->
                        IF i = id
                        THEN (id \in PayIds /\ wasSuccess[id]) \/ d.status = "success"
                        ELSE wasSuccess[i]]

\* POST /initiate, the collection handing out the ids of slots, the body
\* naming one of methods
InitiatePaymentIn(slots, methods) ==
    \E c \in Requesters, amount \in PayAmounts, method \in methods, random \in Randoms :
        LET id == Cardinality(PayIds) + 1
            d == PayPreSave(NewPayment(id, c, amount, method), "pending", now, random)
        IN /\ id \in slots
           /\ PayStore(id, d)
           /\ failures' = [i \in PayIds \cup {id} |-> IF i = id THEN 0 ELSE failures[i]]
           /\ last' = Outcome("initiate", id, "ok", Undefined, <<amount, method>>)
           /\ UNCHANGED <<now, ticketVars>>

InitiatePayment == InitiatePaymentIn(PaymentSlots, PayMethods)

\* the invoice failing made to fail the request
VerifyResultNeedsInvoice(saved, rendered) ==
    IF saved /\ rendered THEN "ok" ELSE "error"

\* the answer of POST /verify: 500 when updateStatus throws, 200 otherwise,
\* the invoice rendered and saved or not
VerifyResult(saved, rendered) == IF saved THEN "ok" ELSE "error"

\* POST /verify: updateStatus('success'), then the invoice, rendered or not,
\* saved with the payment
VerifyPaymentIn(slots) ==
    \E order \in slots, caller \in Customers, signature \in Signatures,
       random \in Randoms, rendered \in BOOLEAN :
        /\ IF ~\E i \in PayIds : payments[i].orderId = order
                                 /\ payments[i].customerId = caller
           THEN /\ last' = Outcome("verify", order, "not_found", Undefined, << >>)
                /\ UNCHANGED payVars
           ELSE LET id == CHOOSE i \in PayIds : payments[i].orderId = order
                    d1 == UpdateStatusDoc(payments[id], "success",
                                          [paymentId |-> "pay_1",
                                           signature |-> signature,
                                           reason |-> Undefined],
                                          now, random)
                    d2 == IF rendered
                          THEN PayPreSave([d1 EXCEPT !.invoiceNumber = "INV"],
                                          d1.status, now, random)
                          ELSE d1
                    saved == ~ReceiptTaken(id, d1)
                IN /\ last' = Outcome("verify", id, VerifyResult(saved, rendered),
                                      payments[id].status,
                                      <<rendered, signature>>)
                   /\ IF saved
                      THEN PayStore(id, d2) /\ UNCHANGED failures
                      ELSE UNCHANGED payVars
        /\ UNCHANGED <<now, ticketVars>>

VerifyPayment == VerifyPaymentIn(PaymentSlots)

\* payment.updateStatus(status, details) followed by nothing else
UpdateStatus ==
    \E id \in PayIds, status \in PaymentStatuses, details \in StatusDetails,
       random \in Randoms :
        LET d == UpdateStatusDoc(payments[id], status, details, now, random)
            reason == details.reason
        IN /\ status = "failed" => payments[id].attempts + 2 <= MaxAttempts
           /\ IF ReceiptTaken(id, d)
              THEN /\ last' = Outcome("updateStatus", id, "error",
                                      payments[id].status,
                                      <<status, reason, details.paymentId,
                                        details.signature>>)
                   /\ UNCHANGED payVars
              ELSE /\ PayStore(id, d)
                   /\ failures' = [failures EXCEPT ![id] =
                                      IF status = "failed" THEN @ + 1 ELSE @]
                   /\ last' = Outcome("updateStatus", id, "ok",
                                      payments[id].status,
                                      <<status, reason, details.paymentId,
                                        details.signature>>)
           /\ UNCHANGED <<now, ticketVars>>

\* POST /:id/refund
InitiateRefund ==
    \E id \in PayIds, amount \in RefundAmounts, reason \in RefundReasons,
       random \in Randoms :
        /\ IF InitiateRefundThrows(payments[id], amount)
           THEN /\ last' = Outcome("initiateRefund", id, "error",
                                   payments[id].status, <<amount, reason>>)
                /\ UNCHANGED payVars
           ELSE /\ PayStore(id, InitiateRefundDoc(payments[id], amount, reason,
                                                  now, random))
                /\ last' = Outcome("initiateRefund", id, "ok",
                                   payments[id].status, <<amount, reason>>)
                /\ UNCHANGED failures
        /\ UNCHANGED <<now, ticketVars>>

\* POST /:id/refund: authorizeRoles('admin'), then the lookup, then
\* payment.initiateRefund(amount, reason); processing the refund with the
\* gateway is left undone
RefundPayment ==
    \E id \in ApiSlots, caller \in Users, amount \in RefundAmounts,
       reason \in RefundReasons, random \in Randoms :
        /\ IF Role(caller) # "admin"
           THEN /\ last' = Outcome("refund", id, "forbidden", Undefined,
                                   <<caller, amount, reason>>)
                /\ UNCHANGED payVars
           ELSE IF id \notin PayIds
           THEN /\ last' = Outcome("refund", id, "not_found", Undefined,
                                   <<caller, amount, reason>>)
                /\ UNCHANGED payVars
           ELSE IF InitiateRefundThrows(payments[id], amount)
           THEN /\ last' = Outcome("refund", id, "error", payments[id].status,
                                   <<caller, amount, reason>>)
                /\ UNCHANGED payVars
           ELSE /\ PayStore(id, InitiateRefundDoc(payments[id], amount, reason,
                                                  now, random))
                /\ last' = Outcome("refund", id, "ok", payments[id].status,
                                   <<caller, amount, reason>>)
                /\ UNCHANGED failures
        /\ UNCHANGED <<now, ticketVars>>

InitiatePaymentApi == InitiatePaymentIn(ApiSlots, AllMethods)

VerifyPaymentApi == VerifyPaymentIn(ApiSlots)

InitiateOnePayment == InitiatePaymentIn(PaymentSlots, {"card"})

----------------------------------------------------------------------------
(* Payment.getEMIDefaulters *)

\* the fields of a stored payment the query reads, metadata.nextDueDate in
\* hours of the clock, Null where the payment has none
PaymentTypes == {"emi", "booking"}
DueDates == {Null, 0, 71, 72, 73, 168}
DefaulterDocs ==
    [paymentType : PaymentTypes,
     status : {"pending", "success", "failed"},
     nextDueDate : DueDates]
DefaulterIds == {1, 2}
\* the hours the query runs at: the tenth and the eleventh day
QueryTimes == {240, 264}
\* the arguments of the call: none, or the days overdue
OverdueArgs == {<< >>, <<7>>, <<3>>}
DefaultDaysOverdue == 7

\* the query with $lte in the place of $lt
GetEMIDefaultersInclusive(docs, t, args) ==
    LET daysOverdue == IF args = << >> THEN DefaultDaysOverdue ELSE args[1]
        cutoffDate == t - 24 * daysOverdue
    IN {i \in DOMAIN docs :
            /\ docs[i].paymentType = "emi"
            /\ docs[i].status = "pending"
            /\ docs[i].nextDueDate # Null
            /\ docs[i].nextDueDate <= cutoffDate}

\* statics.getEMIDefaulters(daysOverdue = 7): the ids of the documents found
GetEMIDefaulters(docs, t, args) ==
    LET daysOverdue == IF args = << >> THEN DefaultDaysOverdue ELSE args[1]
        cutoffDate == t - 24 * daysOverdue
    IN {i \in DOMAIN docs :
            /\ docs[i].paymentType = "emi"
            /\ docs[i].status = "pending"
            /\ docs[i].nextDueDate # Null
            /\ docs[i].nextDueDate < cutoffDate}

\* a collection of two payments, at one of the hours of the query
InitDefaulters ==
    /\ store = << >>
    /\ nextId = 1
    /\ now \in QueryTimes
    /\ inflight = {}
    /\ last = Outcome("none", 0, "ok", Undefined, << >>)
    /\ reopens = << >>
    /\ payments \in [DefaulterIds -> DefaulterDocs]
    /\ failures = [i \in DefaulterIds |-> 0]
    /\ wasSuccess = [i \in DefaulterIds |-> payments[i].status = "success"]

QueryDefaulters ==
    \E args \in OverdueArgs :
        /\ last' = Outcome("getEMIDefaulters", 0, "ok", Undefined,
                           <<args, GetEMIDefaulters(payments, now, args)>>)
        /\ UNCHANGED <<now, ticketVars, payVars>>

----------------------------------------------------------------------------
(* Payment.getStatistics *)

\* the fields of a stored payment the aggregation reads or a filter names
StatsAmounts == {0, 100, 250}
StatsProjects == {"p1", "p2"}
PayStatsDocs ==
    [paymentType : PaymentTypes,
     status : {"pending", "success"},
     amount : StatsAmounts,
     projectId : StatsProjects]
PayStatsIds == {1, 2, 3}
\* the filters of the call: a field is any, or the value it has to have
PayStatsFilters ==
    [paymentType : {"any"}, status : {"any", "pending"}, amount : {"any"},
     projectId : {"any", "p1"}]

\* $match of a document against a filter
Matches(doc, filter) ==
    \A f \in DOMAIN filter : filter[f] = "any" \/ ToString(doc[f]) = ToString(filter[f])

\* the filter taken as it is given
PayStatsMatchAsGiven(filter) == filter

\* { ...filter, status: 'success' }
PayStatsMatch(filter) == [filter EXCEPT !.status = "success"]

\* the documents of a collection in the order of their ids
RECURSIVE InOrder(_, _)
InOrder(docs, ids) ==
    IF ids = {} THEN << >>
    ELSE LET i == CHOOSE x \in ids : \A y \in ids : x <= y
         IN <<docs[i]>> \o InOrder(docs, ids \ {i})

\* { $sum: '$amount' } over the documents of a group
RECURSIVE SumAmount(_)
SumAmount(group) ==
    IF group = << >> THEN 0 ELSE Head(group).amount + SumAmount(Tail(group))

\* the $reduce of byType: $mergeObjects of the value with the type of this
\* entry mapped to what the value has for it, 0 if nothing, plus the amount
RECURSIVE ReduceByType(_, _)
ReduceByType(byType, value) ==
    IF byType = << >> THEN value
    ELSE LET this == Head(byType)
             before == IF this.paymentType \in DOMAIN value
                       THEN value[this.paymentType] ELSE 0
             merged == [k \in DOMAIN value \cup {this.paymentType} |->
                           IF k = this.paymentType THEN before + this.amount
                           ELSE value[k]]
         IN ReduceByType(Tail(byType), merged)

\* statics.getStatistics(filter) of the Payment model; avgAmount is written
\* as the fraction $avg divides out
PaymentGetStatistics(docs, filter) ==
    LET m == PayStatsMatch(filter)
        group == InOrder(docs, {i \in DOMAIN docs : Matches(docs[i], m)})
    IN IF group = << >>
       THEN [totalAmount |-> 0, totalPayments |-> 0,
             avgAmount |-> [num |-> 0, den |-> 1],
             paymentTypes |-> [k \in {} |-> 0]]
       ELSE [totalAmount |-> SumAmount(group),
             totalPayments |-> Len(group),
             avgAmount |-> [num |-> SumAmount(group), den |-> Len(group)],
             paymentTypes |-> ReduceByType(group, [k \in {} |-> 0])]

\* a collection of three payments
InitPayStats ==
    /\ store = << >>
    /\ nextId = 1
    /\ now = 0
    /\ inflight = {}
    /\ last = Outcome("none", 0, "ok", Undefined, << >>)
    /\ reopens = << >>
    /\ payments \in [PayStatsIds -> PayStatsDocs]
    /\ failures = [i \in PayStatsIds |-> 0]
    /\ wasSuccess = [i \in PayStatsIds |-> payments[i].status = "success"]

QueryPayStats ==
    \E filter \in PayStatsFilters :
        /\ last' = Outcome("getStatistics", 0, "ok", Undefined,
                           <<filter, PaymentGetStatistics(payments, filter)>>)
        /\ UNCHANGED <<now, ticketVars, payVars>>

----------------------------------------------------------------------------
(* SupportRequest.getStatistics *)

\* the fields of a stored ticket the three aggregations group by or count,
\* sla.breached written as breached
TicketStatsDocs ==
    [status : {"open", "resolved"},
     priority : {"low", "urgent"},
     type : {"feedback", "billing"},
     breached : BOOLEAN]
TicketStatsIds == {1, 2, 3}
TicketStatsFilters ==
    [status : {"any"}, priority : {"any", "urgent"}, type : {"any"},
     breached : {"any"}]

\* every ticket of a group counted as breached
BreachedCondAlways(doc) == 1

\* { $cond: ['$sla.breached', 1, 0] }
BreachedCond(doc) == IF doc.breached THEN 1 ELSE 0

\* { $sum: <expression> } over the documents of a group
RECURSIVE SumBreached(_, _)
SumBreached(docs, ids) ==
    IF ids = {} THEN 0
    ELSE LET i == CHOOSE x \in ids : TRUE
         IN BreachedCond(docs[i]) + SumBreached(docs, ids \ {i})

\* { $match: filter }, { $group: { _id: '$field', count: { $sum: 1 } } }
GroupCount(docs, filter, field) ==
    LET matched == {i \in DOMAIN docs : Matches(docs[i], filter)}
    IN {[id |-> v,
         count |-> Cardinality({i \in matched : docs[i][field] = v})] :
            v \in {docs[i][field] : i \in matched}}

\* the aggregation by status, of which the count and the breachedCount are
\* followed
GroupByStatus(docs, filter) ==
    LET matched == {i \in DOMAIN docs : Matches(docs[i], filter)}
    IN {[id |-> v,
         count |-> Cardinality({i \in matched : docs[i].status = v}),
         breachedCount |->
             SumBreached(docs, {i \in matched : docs[i].status = v})] :
            v \in {docs[i].status : i \in matched}}

\* statics.getStatistics(filter) of the SupportRequest model
TicketGetStatistics(docs, filter) ==
    [byStatus |-> GroupByStatus(docs, filter),
     byPriority |-> GroupCount(docs, filter, "priority"),
     byType |-> GroupCount(docs, filter, "type")]

\* a collection of three tickets
InitTicketStats ==
    /\ store \in [TicketStatsIds -> TicketStatsDocs]
    /\ nextId = 4
    /\ now = 0
    /\ inflight = {}
    /\ last = Outcome("none", 0, "ok", Undefined, << >>)
    /\ reopens = [i \in TicketStatsIds |-> 0]
    /\ payments = << >>
    /\ failures = << >>
    /\ wasSuccess = << >>

QueryTicketStats ==
    \E filter \in TicketStatsFilters :
        /\ last' = Outcome("SupportRequest.getStatistics", 0, "ok", Undefined,
                           <<filter, TicketGetStatistics(store, filter)>>)
        /\ UNCHANGED <<now, ticketVars, payVars>>

----------------------------------------------------------------------------
(* Specifications *)

\* the lifecycle operations of a ticket, one request at a time
Next ==
    \/ Tick
    \/ CreateRequest
    \/ AddComment
    \/ AssignToAgent
    \/ Resolve
    \/ Reopen
    \/ AddRating
    \/ CustomerUpdate

Spec == Init /\ [][Next]_vars

\* the lifecycle with the status written through the update endpoint, which
\* is the only way a ticket becomes pending_customer or closed
NextStatus ==
    \/ CreateRequest
    \/ AssignToAgent
    \/ Resolve
    \/ Reopen
    \/ AddRating
    \/ UpdateRequest

SpecStatus == Init /\ [][NextStatus]_vars

\* concurrent creations: each POST /requests is two steps
NextCreate ==
    \/ Tick
    \/ CreateStart
    \/ CreateSave

SpecCreate == Init /\ [][NextCreate]_vars

\* the payment operations, one request at a time
NextPayment ==
    \/ Tick
    \/ InitiatePayment
    \/ VerifyPayment
    \/ UpdateStatus
    \/ InitiateRefund

SpecPayment == Init /\ [][NextPayment]_vars

\* the payment routes, one request at a time, within one hour
NextPaymentApi ==
    \/ InitiatePaymentApi
    \/ VerifyPaymentApi
    \/ RefundPayment

SpecPaymentApi == Init /\ [][NextPaymentApi]_vars

\* the routes that name a ticket or a payment by its id, called by any
\* authenticated user, one request at a time, within one hour
NextRoutes ==
    \/ CreateOneRequest
    \/ ResolveRoute
    \/ AssignRoute
    \/ RatingRoute
    \/ CommentRoute
    \/ UpdateRoute
    \/ InitiateOnePayment
    \/ RefundPayment

SpecRoutes == Init /\ [][NextRoutes]_vars

\* the query for the EMI defaulters over a stored collection
NextDefaulters == QueryDefaulters

SpecDefaulters == InitDefaulters /\ [][NextDefaulters]_vars

\* the payment statistics over a stored collection
NextPayStats == QueryPayStats

SpecPayStats == InitPayStats /\ [][NextPayStats]_vars

\* one ticket, the requests on it and what they answer
NextResponses ==
    \/ CreateOneRequest
    \/ ResolveRoute
    \/ RatingRoute
    \/ CommentRoute
    \/ UpdateRoute
    \/ GetRoute
    \/ ListRoute

SpecResponses == Init /\ [][NextResponses]_vars

\* tickets created, worked on and deleted within one hour, one request at a
\* time
NextDelete ==
    \/ CreateRequest
    \/ AssignToAgent
    \/ Resolve
    \/ DeleteRequest

SpecDelete == Init /\ [][NextDelete]_vars

\* one ticket resolved and reopened, the reopening requests overlapping
NextRace ==
    \/ CreateOneRequest
    \/ Resolve
    \/ ReopenLoad
    \/ ReopenSave

SpecRace == Init /\ [][NextRace]_vars

\* the ticket statistics over a stored collection
NextTicketStats == QueryTicketStats

SpecTicketStats == InitTicketStats /\ [][NextTicketStats]_vars

----------------------------------------------------------------------------
(* Properties *)

ReopenOps == {"reopen", "update_reopen"}

\* this step is a call of operation op on the stored document id
Called(op, id) ==
    /\ last'.op = op
    /\ last'.id = id
    /\ id \in Ids
    /\ id \in DOMAIN store'
    /\ now' = now
    /\ inflight' = inflight

LifecycleEdges ==
    {<<"open", "in_review">>,
     <<"in_review", "pending_customer">>, <<"in_review", "resolved">>,
     <<"pending_customer", "closed">>, <<"resolved", "closed">>,
     <<"resolved", "open">>, <<"closed", "open">>}

\* C1: every status change made by assignToAgent, resolve or reopen follows
\* an edge of open -> in_review -> {pending_customer, resolved} -> closed,
\* or resolved/closed -> open, the latter by reopen only.
C1_StatusFollowsStateMachine ==
    [][\A id \in Ids :
         \A op \in {"assignToAgent", "resolve", "reopen", "update_reopen"} :
           (Called(op, id) /\ store'[id].status # store[id].status) =>
              /\ <<store[id].status, store'[id].status>> \in LifecycleEdges
              /\ store'[id].status = "open" => op \in ReopenOps]_vars

C3_ReopenRejectedUnlessResolved ==
    [][\A id \in Ids : \A op \in ReopenOps :
         (Called(op, id)
            /\ store[id].status \in {"open", "in_review", "pending_customer"}) =>
               /\ store'[id].status = store[id].status
               /\ store'[id].resolution = store[id].resolution
               /\ store'[id].reopenedCount = store[id].reopenedCount
               /\ store'[id].lastReopenedAt = store[id].lastReopenedAt
               /\ store'[id].comments = store[id].comments]_vars

\* reopen was called with a reason on a ticket pending on the customer that
\* had been reopened before
C3_Witness ==
    \E id \in Ids :
        /\ last.op = "reopen" /\ last.id = id /\ last.from = "pending_customer"
        /\ last.arg = <<"still broken">>
        /\ store[id].status = "pending_customer"
        /\ store[id].reopenedCount = 1
        /\ store[id].comments = << >>

\* C4: addRating on an open, in_review or pending_customer ticket fails and
\* leaves the stored ticket, its rating included, unchanged; on a resolved
\* or closed ticket it succeeds and stores the score and the feedback.
C4_RatingOnlyAfterResolution ==
    [][\A id \in Ids :
         Called("addRating", id) =>
            IF store[id].status \in {"open", "in_review", "pending_customer"}
            THEN /\ last'.result = "error"
                 /\ store'[id] = store[id]
            ELSE /\ last'.result = "ok"
                 /\ store'[id].rating.score = last'.arg[1]
                 /\ store'[id].rating.feedback = last'.arg[2]]_vars

\* a rated ticket, back in review, refused a second rating and kept the first
C4_Witness ==
    \E id \in Ids :
        /\ last.op = "addRating" /\ last.id = id /\ last.result = "error"
        /\ last.from = "in_review"
        /\ last.arg[1] = 1
        /\ store[id].rating.score = 5
        /\ store[id].rating.feedback = "thanks"

\* C5: resolve of a ticket that is already resolved fails and leaves the
\* resolution record as it was.
C5_ResolveTwiceRejected ==
    [][\A id \in Ids :
         (Called("resolve", id) /\ store[id].status = "resolved") =>
            /\ last'.result = "error"
            /\ store'[id].resolution = store[id].resolution]_vars

\* C6: after resolve of a ticket that is not resolved, the ticket is
\* resolved, its resolution holds the given text, the resolver and the time
\* of the call, and sla.resolutionTime is the hours since creation.
C6_ResolveRecordsResolutionTime ==
    [][\A id \in Ids :
         (Called("resolve", id) /\ store[id].status # "resolved"
            /\ last'.result = "ok") =>
               /\ store'[id].status = "resolved"
               /\ store'[id].resolution.text = last'.arg[1]
               /\ store'[id].resolution.resolvedBy = last'.arg[2]
               /\ store'[id].resolution.resolvedAt = now
               /\ store'[id].sla.resolutionTime = now - store[id].createdAt]_vars

SlaTable ==
    [urgent |-> <<2, 24>>, high |-> <<4, 48>>,
     medium |-> <<24, 72>>, low |-> <<48, 120>>]

\* C7: a newly created ticket of priority p has responseDeadline = creation
\* time + R(p) hours and resolutionDeadline = creation time + S(p) hours,
\* (R, S) being urgent (2, 24), high (4, 48), medium (24, 72), low (48, 120).
C7_DeadlinesFollowPriority ==
    \A id \in Ids :
        /\ store[id].priority \in DOMAIN SlaTable
        /\ store[id].sla.responseDeadline =
               store[id].createdAt + SlaTable[store[id].priority][1]
        /\ store[id].sla.resolutionDeadline =
               store[id].createdAt + SlaTable[store[id].priority][2]

\* an urgent ticket created at hour 25 is due at hours 27 and 49
C7_Witness ==
    \E id \in Ids :
        /\ store[id].priority = "urgent"
        /\ store[id].createdAt = 25
        /\ store[id].sla.responseDeadline = 27
        /\ store[id].sla.resolutionDeadline = 49

\* C8: the two SLA deadlines of a ticket are set when it is created and no
\* later operation changes them.
C8_DeadlinesNeverChange ==
    /\ [](\A id \in Ids : /\ store[id].sla.responseDeadline # Null
                          /\ store[id].sla.resolutionDeadline # Null)
    /\ [][\A id \in Ids :
            id \in DOMAIN store' =>
               /\ store'[id].sla.responseDeadline = store[id].sla.responseDeadline
               /\ store'[id].sla.resolutionDeadline =
                      store[id].sla.resolutionDeadline]_vars

\* a ticket created at hour 0 was commented, rated, reopened and resolved
\* again at hour 25, its response deadline still the one of hour 0
C8_Witness ==
    \E id \in Ids :
        /\ last.op = "resolve" /\ last.id = id
        /\ store[id].reopenedCount = 1
        /\ store[id].rating.score # Null
        /\ Len(store[id].comments) = 1
        /\ store[id].assignedTo # Undefined
        /\ store[id].createdAt = 0
        /\ now = 25
        /\ store[id].sla.responseDeadline < now

\* C9: a ticket created through the create operation is stored with status
\* open and a generated ticketNumber, TKT + year + month + the 5-digit
\* number of tickets that existed plus one, never a placeholder.
C9_CreatedTicketIsNumbered ==
    \A id \in Ids :
        (last.op = "create" /\ last.result = "ok" /\ last.id = id) =>
            /\ store[id].status = "open"
            /\ store[id].ticketNumber # "temp"
            /\ store[id].ticketNumber =
                   GenerateTicketNumber(Cardinality(Ids) - 1, store[id].createdAt)

\* C10: no two stored tickets have the same ticketNumber, however the
\* creations interleave.
C10_TicketNumbersUnique ==
    \A i \in Ids : \A j \in Ids :
        i # j => store[i].ticketNumber # store[j].ticketNumber

\* two creations carried the same number; one is stored, the other was
\* rejected by the insert
C10_Witness ==
    /\ last.op = "create" /\ last.result = "error"
    /\ inflight = {}
    /\ \E i \in Ids : i # last.id /\ store[i].ticketNumber = "temp"

\* the operations of a ticket that end in save()
SavingOps ==
    {"addComment", "assignToAgent", "resolve", "reopen", "update_reopen", "addRating"}

\* C11: the ticketNumber of a stored ticket is the same after every
\* addComment, assignToAgent, resolve, reopen and addRating.
C11_TicketNumberImmutable ==
    [][\A id \in Ids :
         id \in DOMAIN store' =>
            store'[id].ticketNumber = store[id].ticketNumber]_vars

\* a ticket that was commented, assigned, resolved, reopened, resolved again
\* and rated in February carries the number it was stored with in January
C11_Witness ==
    \E id \in Ids :
        /\ last.op = "addRating" /\ last.id = id /\ last.result = "ok"
        /\ store[id].reopenedCount = 1
        /\ Len(store[id].comments) = 1
        /\ store[id].assignedTo # Undefined
        /\ store[id].createdAt = 0
        /\ now = 25
        /\ store[id].ticketNumber = "temp"

\* C12: the update endpoint writes none of status, ticket number, SLA record,
\* resolution, rating and reopen counter directly, and moves no ticket from
\* resolved or closed to open without adding one to reopenedCount.
C12_UpdateWritesNoLifecycleField ==
    [][\A id \in Ids :
         Called("update", id) =>
            /\ store'[id].status = store[id].status
            /\ store'[id].ticketNumber = store[id].ticketNumber
            /\ store'[id].sla = store[id].sla
            /\ store'[id].resolution = store[id].resolution
            /\ store'[id].rating = store[id].rating
            /\ store'[id].reopenedCount = store[id].reopenedCount]_vars

\* C13: a ticket whose resolution holds a text, a resolver or a timestamp
\* has status resolved.
C13_ResolutionOnlyWhenResolved ==
    \A id \in Ids :
        (\/ store[id].resolution.text # Undefined
         \/ store[id].resolution.resolvedBy # Undefined
         \/ store[id].resolution.resolvedAt # Null) =>
            store[id].status = "resolved"

\* C14: addComment appends the comment; when no response is recorded and
\* the comment is non-internal or written by an admin, firstResponseAt is
\* set and sla.responseTime is the hours since creation; when the comment is
\* internal and not written by an admin, firstResponseAt stays as it was.
C14_CommentRecordsFirstResponse ==
    [][\A id \in Ids :
         Called("addComment", id) =>
            LET text == last'.arg[1]
                author == last'.arg[2]
                internal == last'.arg[3]
            IN /\ store'[id].comments =
                      Append(store[id].comments,
                             [text |-> text, author |-> author,
                              isInternal |-> internal, createdAt |-> now])
               /\ (store[id].firstResponseAt = Null
                     /\ (~internal \/ Role(author) = "admin")) =>
                      /\ store'[id].firstResponseAt = now
                      /\ store'[id].sla.responseTime = now - store[id].createdAt
               /\ (internal /\ Role(author) # "admin") =>
                      store'[id].firstResponseAt = store[id].firstResponseAt]_vars

\* C15: assignToAgent(agentId) leaves the ticket assigned to agentId and in
\* status in_review, whatever its status and assignee were.
C15_AssignForcesInReview ==
    [][\A id \in Ids :
         Called("assignToAgent", id) =>
            /\ store'[id].assignedTo = last'.arg[1]
            /\ store'[id].status = "in_review"]_vars

\* a closed ticket was assigned to a2 and is in review
C15_Witness ==
    \E id \in Ids :
        /\ last.op = "assignToAgent" /\ last.id = id /\ last.from = "closed"
        /\ store[id].status = "in_review"
        /\ store[id].assignedTo = "a2"
        /\ store[id].resolution.resolvedAt # Null

\* C16: after a save at time t, a ticket with t past its responseDeadline
\* and no first response, or with t past its resolutionDeadline and a status
\* other than resolved and closed, is stored with sla.breached true.
C16_BreachSetOnSave ==
    [][\A id \in Ids : \A op \in SavingOps :
         (Called(op, id) /\ last'.result = "ok") =>
            LET d == store'[id]
            IN (\/ now > d.sla.responseDeadline /\ d.firstResponseAt = Null
                \/ /\ now > d.sla.resolutionDeadline
                   /\ d.status \notin {"resolved", "closed"}) =>
                   d.sla.breached]_vars

\* an urgent ticket answered at hour 0 was assigned at hour 25, past its
\* resolution deadline only, and is stored as breached
C16_Witness ==
    \E id \in Ids :
        /\ last.op = "assignToAgent" /\ last.id = id
        /\ now = 25
        /\ store[id].firstResponseAt = 0
        /\ store[id].sla.resolutionDeadline = 24
        /\ store[id].status = "in_review"
        /\ store[id].sla.breached

PayCalled(op, id) ==
    /\ last'.op = op
    /\ last'.id = id
    /\ id \in PayIds
    /\ id \in DOMAIN payments'
    /\ now' = now

\* C18: a payment's receipt number is generated at its first transition to
\* success and never changes or disappears afterwards; a payment that was
\* never in status success has none.
C18_ReceiptGeneratedOnce ==
    /\ [](\A id \in PayIds :
            /\ ~wasSuccess[id] => payments[id].receiptNumber = Undefined
            /\ payments[id].status = "success" =>
                   payments[id].receiptNumber # Undefined)
    /\ [][\A id \in PayIds :
            id \in DOMAIN payments' =>
               /\ payments[id].receiptNumber # Undefined =>
                      payments'[id].receiptNumber = payments[id].receiptNumber
               /\ (payments[id].receiptNumber = Undefined
                     /\ payments'[id].receiptNumber # Undefined) =>
                      /\ ~wasSuccess[id]
                      /\ payments'[id].status = "success"]_vars

\* a payment verified in January, refunded and failed, was verified again
\* in February and carries its January receipt
C18_Witness ==
    \E id \in PayIds :
        /\ last.op = "verify" /\ last.id = id /\ last.result = "ok"
        /\ last.from = "failed"
        /\ now = 25
        /\ payments[id].status = "success"
        /\ payments[id].paidAt = 25
        /\ payments[id].receiptNumber = "REC2024010007"
        /\ payments[id].refundDetails.status = "initiated"
        /\ payments[id].invoiceNumber = "INV"

\* C19: updateStatus('failed', details) sets status failed, stores the
\* failure reason and adds exactly one to attempts.
C19_FailureCountsOnce ==
    [][\A id \in PayIds :
         (PayCalled("updateStatus", id) /\ last'.result = "ok"
            /\ last'.arg[1] = "failed") =>
               /\ payments'[id].status = "failed"
               /\ payments'[id].failureReason =
                      (IF last'.arg[2] = Undefined
                       THEN "Payment failed" ELSE last'.arg[2])
               /\ payments'[id].attempts = payments[id].attempts + 1]_vars

\* C20: initiateRefund fails and leaves the stored payment unchanged when
\* the status is not success or the amount exceeds the payment's amount;
\* otherwise it stores a refund of the given amount and reason with status
\* initiated. A stored refund never exceeds the payment's amount.
C20_RefundGuarded ==
    /\ [](\A id \in PayIds :
            payments[id].refundDetails.amount # Null =>
               payments[id].refundDetails.amount <= payments[id].amount)
    /\ [][\A id \in PayIds :
            PayCalled("initiateRefund", id) =>
               IF payments[id].status # "success"
                  \/ last'.arg[1] > payments[id].amount
               THEN /\ last'.result = "error"
                    /\ payments'[id] = payments[id]
               ELSE /\ last'.result = "ok"
                    /\ payments'[id].refundDetails.amount = last'.arg[1]
                    /\ payments'[id].refundDetails.reason = last'.arg[2]
                    /\ payments'[id].refundDetails.status = "initiated"]_vars

\* a refund of 150 on a successful payment of 100 was refused, and the
\* earlier refund of the full 100 is still stored
C20_Witness ==
    \E id \in PayIds :
        /\ last.op = "initiateRefund" /\ last.id = id /\ last.result = "error"
        /\ last.arg[1] = 150
        /\ payments[id].status = "success"
        /\ payments[id].amount = 100
        /\ payments[id].refundDetails.amount = 100
        /\ payments[id].refundDetails.status = "initiated"

\* C21: once a stored payment is success or refunded, no operation changes
\* its status, except for the step from success to refunded.
C21_SettledStatusOnlyMovesToRefunded ==
    [][\A id \in PayIds :
         (payments[id].status \in {"success", "refunded"}
            /\ payments'[id].status # payments[id].status) =>
               (payments[id].status = "success"
                  /\ payments'[id].status = "refunded")]_vars

\* C22: once a stored payment is failed, no later operation changes its
\* status.
C22_FailedIsTerminal ==
    [][\A id \in PayIds :
         payments[id].status = "failed" => payments'[id].status = "failed"]_vars

\* C23: a success payment whose refund was initiated can be taken to
\* status refunded by the operations the refund goes through.
C23_RefundFlowReachesRefunded ==
    \A id \in PayIds :
        (payments[id].status = "success"
           /\ payments[id].refundDetails.status = "initiated") =>
              ENABLED (NextPaymentApi /\ payments'[id].status = "refunded")

\* no payment the routes store is ever refunded
NeverRefunded == \A id \in PayIds : payments[id].status # "refunded"

\* C24: a saved updateStatus('success', details) leaves the stored payment
\* with status success, paidAt the time of the call, the gateway payment id
\* and signature that details carry, and a receipt number: the one it had,
\* or a new one when it had none.
C24_SuccessTransitionStored ==
    [][\A id \in PayIds :
         (PayCalled("updateStatus", id) /\ last'.result = "ok"
            /\ last'.arg[1] = "success") =>
               /\ payments'[id].status = "success"
               /\ payments'[id].paidAt = now
               /\ payments'[id].paymentId =
                      (IF last'.arg[3] = Undefined
                       THEN payments[id].paymentId ELSE last'.arg[3])
               /\ payments'[id].signature =
                      (IF last'.arg[4] = Undefined
                       THEN payments[id].signature ELSE last'.arg[4])
               /\ payments'[id].receiptNumber # Undefined
               /\ IF payments[id].receiptNumber # Undefined
                  THEN payments'[id].receiptNumber = payments[id].receiptNumber
                  ELSE \E random \in Randoms :
                          payments'[id].receiptNumber =
                              GenerateReceiptNumber(now, random)]_vars

\* a pending payment initiated in January was made a success in February
\* with the gateway's payment id and signature
C24_Witness ==
    \E id \in PayIds :
        /\ last.op = "updateStatus" /\ last.id = id /\ last.result = "ok"
        /\ last.arg[1] = "success" /\ last.from = "pending"
        /\ now = 25
        /\ payments[id].status = "success"
        /\ payments[id].paidAt = 25
        /\ payments[id].paymentId = "pay_1"
        /\ payments[id].signature = "sig_1"
        /\ payments[id].receiptNumber = GenerateReceiptNumber(25, 8)

\* C25: when the invoice of a verified payment cannot be rendered or saved,
\* the payment is stored as a success with its receipt number and the caller
\* gets the success response; the request fails only when the success
\* transition itself is rejected, with nothing stored.
C25_InvoiceFailureKeepsSuccess ==
    [][\A id \in PayIds :
         (PayCalled("verify", id) /\ last'.result # "not_found"
            /\ ~last'.arg[1]) =>
               \/ /\ last'.result = "ok"
                  /\ payments'[id].status = "success"
                  /\ payments'[id].receiptNumber # Undefined
                  /\ payments'[id].paidAt = now
                  /\ payments'[id].invoiceNumber = payments[id].invoiceNumber
               \/ /\ last'.result = "error"
                  /\ payments' = payments
                  /\ payments[id].receiptNumber = Undefined
                  /\ \E j \in PayIds \ {id}, random \in Randoms :
                        payments[j].receiptNumber =
                            GenerateReceiptNumber(now, random)]_vars

\* a pending payment was verified, its invoice failed, and the caller was
\* told of the success
C25_Witness ==
    \E id \in PayIds :
        /\ last.op = "verify" /\ last.id = id /\ last.result = "ok"
        /\ last.from = "pending"
        /\ ~last.arg[1]
        /\ payments[id].status = "success"
        /\ payments[id].receiptNumber # Undefined
        /\ payments[id].invoiceNumber = Undefined

\* C26: the payment POST /initiate stores is pending, has no failed attempt
\* and no receipt number; paid by card or upi it carries the gateway provider
\* and an order id, paid by bank transfer, cash or cheque it carries no order
\* id.
C26_InitiatedPaymentIsPending ==
    [][\A id \in ApiSlots :
         (id \notin PayIds /\ id \in DOMAIN payments') =>
            LET d == payments'[id]
            IN /\ last'.op = "initiate" /\ last'.id = id
               /\ d.method = last'.arg[2]
               /\ d.status = "pending"
               /\ d.attempts = 0
               /\ d.receiptNumber = Undefined
               /\ d.paymentId = Undefined
               /\ IF d.method \in {"card", "upi"}
                  THEN d.provider = "razorpay" /\ d.orderId # Null
                  ELSE d.orderId = Null]_vars

\* a payment by upi and a payment by cheque were initiated
C26_Witness ==
    /\ last.op = "initiate" /\ last.id = 2 /\ last.arg[2] = "cheque"
    /\ PayIds = {1, 2}
    /\ payments[1].method = "upi"
    /\ payments[1].status = "pending"
    /\ payments[1].orderId # Null
    /\ payments[2].status = "pending"
    /\ payments[2].orderId = Null

\* C27: no two stored payments share a receipt number; a verification that
\* draws a receipt number another payment holds is answered with an error
\* and leaves the stored payment as it was, not a success.
C27_ReceiptNumbersUnique ==
    /\ [](\A i, j \in PayIds :
            (i # j /\ payments[i].receiptNumber # Undefined) =>
                payments[i].receiptNumber # payments[j].receiptNumber)
    /\ [][\A id \in PayIds :
            (PayCalled("verify", id) /\ last'.result = "error") =>
               /\ payments' = payments
               /\ payments[id].status # "success"
               /\ \E j \in PayIds \ {id}, random \in Randoms :
                     payments[j].receiptNumber =
                         GenerateReceiptNumber(now, random)]_vars

\* the verification of the second payment drew the receipt number of the
\* first and was rejected
C27_Witness ==
    /\ last.op = "verify" /\ last.id = 2 /\ last.result = "error"
    /\ PayIds = {1, 2}
    /\ payments[1].status = "success"
    /\ payments[1].receiptNumber # Undefined
    /\ payments[2].status = "pending"
    /\ payments[2].receiptNumber = Undefined

\* the operations of the ticket routes that follow the caller
TicketRouteOps ==
    {"resolve", "assignToAgent", "addRating", "addComment", "update",
     "update_reopen"}

\* C28: a stored ticket changes only by a request of an admin or of its
\* owner; resolve and assignToAgent run for an admin only, reopen and
\* addRating for the owning customer only; an update by a customer changes
\* the ticket only as the reopening of the customer's own resolved or closed
\* ticket, and every other request of the kind is refused, the ticket
\* unchanged.
C28_OperationsGatedByRole ==
    [][/\ \A id \in Ids :
             store'[id] # store[id] =>
                LET caller == last'.arg[1]
                    owner == store[id].customerId
                IN /\ last'.op \in TicketRouteOps
                   /\ last'.id = id /\ last'.result = "ok"
                   /\ caller \in Admins \/ caller = owner
                   /\ last'.op \in {"resolve", "assignToAgent"} =>
                          caller \in Admins
                   /\ last'.op \in {"addRating", "update_reopen"} =>
                          caller = owner /\ caller \notin Admins
                   /\ (last'.op = "update" /\ caller \notin Admins) => FALSE
                   /\ last'.op = "update_reopen" =>
                          /\ store[id].status \in {"resolved", "closed"}
                          /\ store'[id].status = "open"
                          /\ store'[id].reopenedCount = store[id].reopenedCount + 1
       /\ (last'.op \in TicketRouteOps /\ last'.id \in Ids) =>
             LET caller == last'.arg[1]
                 ticket == store[last'.id]
                 owner == ticket.customerId
             IN /\ (caller \notin Admins /\ caller # owner) =>
                       last'.result = "forbidden"
                /\ (last'.op \in {"resolve", "assignToAgent"}
                      /\ caller \notin Admins) => last'.result = "forbidden"
                /\ (last'.op = "addRating" /\ caller # owner) =>
                       last'.result = "forbidden"
                /\ (last'.op \in {"update", "update_reopen"}
                      /\ caller \notin Admins
                      /\ ~(last'.op = "update_reopen"
                             /\ ticket.status \in {"resolved", "closed"})) =>
                       last'.result = "forbidden"
                /\ last'.result = "forbidden" => store' = store]_vars

\* the ticket was resolved by the admin, rated and reopened by its owner and
\* resolved again; the admin's rating of it was refused
C28_Witness ==
    /\ 1 \in Ids
    /\ last.op = "addRating" /\ last.id = 1 /\ last.result = "forbidden"
    /\ last.arg[1] = "a1"
    /\ store[1].customerId = "c1"
    /\ store[1].status = "resolved"
    /\ store[1].resolution.resolvedBy = "a1"
    /\ store[1].reopenedCount = 1
    /\ store[1].rating.score = 5

\* the operations of the routes that name a ticket or a payment by its id
AddressedOps == TicketRouteOps \cup {"refund"}

\* the id of the request this step answers names a stored document
Addressed ==
    IF last'.op = "refund" THEN last'.id \in PayIds ELSE last'.id \in Ids

\* the operations only an admin is let through to
AdminOps == {"resolve", "assignToAgent", "refund"}

\* the caller of this step has no permission for what is asked of the stored
\* ticket it names
LacksPermission ==
    LET caller == last'.arg[1]
        ticket == store[last'.id]
        owner == ticket.customerId
    IN CASE last'.op = "addRating" -> caller # owner
         [] last'.op = "addComment" -> caller \notin Admins /\ caller # owner
         [] last'.op = "update" -> caller \notin Admins
         [] last'.op = "update_reopen" ->
                caller \notin Admins
                  /\ (caller # owner
                        \/ ticket.status \notin {"resolved", "closed"})
         [] OTHER -> FALSE

\* C29: a request that names an id no stored ticket or payment has is
\* answered not-found once the caller's role is let through to the
\* operation; a caller the role check of the operation refuses, or one who
\* lacks permission for what is asked of the stored ticket, is answered
\* access-denied, and nobody else is; neither answer changes a stored ticket
\* or payment.
C29_NotFoundAfterRoleCheck ==
    [][last'.op \in AddressedOps =>
          LET caller == last'.arg[1]
              admitted == last'.op \in AdminOps => caller \in Admins
          IN /\ (~Addressed /\ admitted) => last'.result = "not_found"
             /\ ~admitted => last'.result = "forbidden"
             /\ (Addressed /\ admitted /\ last'.op # "refund"
                   /\ LacksPermission) => last'.result = "forbidden"
             /\ last'.result = "not_found" => ~Addressed
             /\ last'.result = "forbidden" =>
                    \/ ~admitted
                    \/ Addressed /\ last'.op # "refund" /\ LacksPermission
             /\ last'.result \in {"not_found", "forbidden"} =>
                    store' = store /\ payments' = payments]_vars

\* the admin asked for the refund of a payment that is not stored, one
\* ticket and one payment being stored
C29_Witness ==
    /\ last.op = "refund" /\ last.id = 2 /\ last.result = "not_found"
    /\ last.arg[1] = "a1"
    /\ Ids = {1}
    /\ PayIds = {1}

\* C29 as stated: every request that names an id no stored ticket or
\* payment has is answered not-found, whoever calls.
C29_UnknownIdIsNotFound ==
    [][(last'.op \in AddressedOps /\ ~Addressed) =>
           last'.result = "not_found"]_vars

\* C30: getEMIDefaulters(daysOverdue), 7 days where none is given, returns
\* exactly the stored payments of type emi and status pending whose
\* metadata.nextDueDate lies more than daysOverdue days before the time of
\* the call.
C30_DefaultersAreOverdueEmi ==
    last.op = "getEMIDefaulters" =>
        LET days == IF Len(last.arg[1]) = 0 THEN 7 ELSE last.arg[1][1]
            found == last.arg[2]
        IN /\ found \subseteq PayIds
           /\ \A i \in PayIds :
                 i \in found <=>
                    /\ payments[i].paymentType = "emi"
                    /\ payments[i].status = "pending"
                    /\ payments[i].nextDueDate # Null
                    /\ payments[i].nextDueDate + 24 * days < now

\* with no argument on the tenth day, the pending EMI due ten days before is
\* returned and the one due three days before is not
C30_Witness ==
    /\ last.op = "getEMIDefaulters"
    /\ last.arg[1] = << >>
    /\ now = 240
    /\ payments[1] = [paymentType |-> "emi", status |-> "pending",
                      nextDueDate |-> 0]
    /\ payments[2] = [paymentType |-> "emi", status |-> "pending",
                      nextDueDate |-> 168]
    /\ last.arg[2] = {1}

\* the sum of the amounts of the stored payments of a set of ids
RECURSIVE AmountOf(_)
AmountOf(ids) ==
    IF ids = {} THEN 0
    ELSE LET i == CHOOSE x \in ids : TRUE
         IN payments[i].amount + AmountOf(ids \ {i})

\* the sum of the values of a mapping
RECURSIVE ValuesOf(_, _)
ValuesOf(f, keys) ==
    IF keys = {} THEN 0
    ELSE LET k == CHOOSE x \in keys : TRUE
         IN f[k] + ValuesOf(f, keys \ {k})

\* C31: the payment statistics count the success payments that match the
\* filter and no other: totalPayments is their number, totalAmount the sum
\* of their amounts, avgAmount their mean, paymentTypes maps each of their
\* types to the sum of the amounts of the type, its values adding up to
\* totalAmount; with none of them the totals are 0 and paymentTypes is
\* empty.
C31_StatisticsOverSuccessPayments ==
    last.op = "getStatistics" =>
        LET filter == last.arg[1]
            stats == last.arg[2]
            counted == {i \in PayIds :
                          /\ payments[i].status = "success"
                          /\ filter.projectId = "any"
                               \/ payments[i].projectId = filter.projectId}
            types == {payments[i].paymentType : i \in counted}
        IN /\ stats.totalPayments = Cardinality(counted)
           /\ stats.totalAmount = AmountOf(counted)
           /\ stats.avgAmount.num * stats.totalPayments
                 = stats.totalAmount * stats.avgAmount.den
           /\ stats.avgAmount.den > 0
           /\ DOMAIN stats.paymentTypes = types
           /\ \A t \in types :
                 stats.paymentTypes[t] =
                     AmountOf({i \in counted : payments[i].paymentType = t})
           /\ ValuesOf(stats.paymentTypes, types) = stats.totalAmount
           /\ counted = {} =>
                 /\ stats.totalAmount = 0
                 /\ stats.avgAmount.num = 0
                 /\ stats.paymentTypes = [k \in {} |-> 0]

\* asked for the pending payments of project p1, the statistics count its two
\* success payments, of two types, and neither its pending payment nor
\* another project's
C31_Witness ==
    /\ last.op = "getStatistics"
    /\ last.arg[1].status = "pending" /\ last.arg[1].projectId = "p1"
    /\ payments[1] = [paymentType |-> "emi", status |-> "success",
                      amount |-> 100, projectId |-> "p1"]
    /\ payments[2] = [paymentType |-> "booking", status |-> "success",
                      amount |-> 250, projectId |-> "p1"]
    /\ payments[3].status = "pending" /\ payments[3].projectId = "p1"
    /\ last.arg[2].totalPayments = 2
    /\ last.arg[2].totalAmount = 350
    /\ last.arg[2].paymentTypes["emi"] = 100

\* the sum of the counts of a set of groups
RECURSIVE CountsOf(_)
CountsOf(groups) ==
    IF groups = {} THEN 0
    ELSE LET g == CHOOSE x \in groups : TRUE
         IN g.count + CountsOf(groups \ {g})

\* C32: over a collection that does not change, the ticket statistics hold
\* one group for each status, each priority and each type among the tickets
\* that match the filter; the counts of the groups add up to the number of
\* matching tickets in each of the three, and the breachedCount of a status
\* is the number of matching tickets of that status flagged as breached.
C32_TicketStatisticsAddUp ==
    last.op = "SupportRequest.getStatistics" =>
        LET filter == last.arg[1]
            stats == last.arg[2]
            matching == {i \in Ids : filter.priority = "any"
                                       \/ store[i].priority = filter.priority}
        IN /\ \A groups \in {stats.byStatus, stats.byPriority, stats.byType} :
                 /\ CountsOf(groups) = Cardinality(matching)
                 /\ \A g, h \in groups : g.id = h.id => g = h
                 /\ \A g \in groups : g.count > 0
           /\ {g.id : g \in stats.byStatus} = {store[i].status : i \in matching}
           /\ \A g \in stats.byStatus :
                 /\ g.count =
                        Cardinality({i \in matching : store[i].status = g.id})
                 /\ g.breachedCount =
                        Cardinality({i \in matching :
                                        store[i].status = g.id
                                          /\ store[i].breached})

\* of three tickets, two open and one resolved, one of the open ones is
\* breached: the group of the open tickets counts two and one breach
C32_Witness ==
    /\ last.op = "SupportRequest.getStatistics"
    /\ last.arg[1].priority = "any"
    /\ store[1].status = "open" /\ store[1].breached
    /\ store[2].status = "open" /\ ~store[2].breached
    /\ store[3].status = "resolved" /\ ~store[3].breached
    /\ [id |-> "open", count |-> 2, breachedCount |-> 1] \in last.arg[2].byStatus
    /\ [id |-> "resolved", count |-> 1, breachedCount |-> 0]
           \in last.arg[2].byStatus

\* C33: a ticket whose first response is recorded after its
\* responseDeadline, or which is resolved after its resolutionDeadline, is
\* stored with sla.breached true by that operation.
C33_LateMilestoneIsBreach ==
    [][\A id \in Ids :
         id \in DOMAIN store' =>
            /\ (/\ store[id].firstResponseAt = Null
                /\ store'[id].firstResponseAt # Null
                /\ store'[id].firstResponseAt > store[id].sla.responseDeadline) =>
                   store'[id].sla.breached
            /\ (/\ Called("resolve", id)
                /\ store[id].status # "resolved"
                /\ store'[id].status = "resolved"
                /\ now > store[id].sla.resolutionDeadline) =>
                   store'[id].sla.breached]_vars

\* C34: whatever the interleaving of the requests on a ticket, its
\* reopenedCount is the number of reopen requests accepted from status
\* resolved or closed.
C34_ReopenCountUnderInterleaving ==
    \A id \in Ids : store[id].reopenedCount = reopens[id]

\* C35: with one request at a time, after any creations and deletions within
\* a month, the ticket number a creation gives its document is the number of
\* no stored ticket.
C35_CreationNumberIsFresh ==
    \A c \in Requesters, p \in LifecyclePriorities :
        BuildRequest(c, p, CountDocuments, now).ticketNumber
            \notin {store[i].ticketNumber : i \in Ids}

\* the number the hook's sequence gives for the count of stored tickets is
\* the number of no stored ticket
SequenceNumberIsFresh ==
    GenerateTicketNumber(CountDocuments, now)
        \notin {store[i].ticketNumber : i \in Ids}

\* the requests a customer can make that are answered with tickets
CustomerTicketOps ==
    {"get", "list", "addComment", "addRating", "update_reopen"}

InternalCommentIn(docs) ==
    \E d \in docs : \E k \in 1..Len(d.comments) : d.comments[k].isInternal

\* C36: no response to a customer's request (get one ticket, list tickets,
\* add a comment, reopen, rate) holds a comment whose isInternal is true.
C36_NoInternalCommentToCustomer ==
    (/\ last.op \in CustomerTicketOps
     /\ last.result = "ok"
     /\ Role(last.arg[1]) = "customer")
        => ~InternalCommentIn(ResponseData)

\* the ticket a customer reads with GET /requests/:id holds no internal
\* comment
GetOneHidesInternalComments ==
    (last.op = "get" /\ last.result = "ok" /\ Role(last.arg[1]) = "customer")
        => ~InternalCommentIn(ResponseData)

\* a comment stored as internal has an admin as its author
InternalCommentsAreByAdmins ==
    \A i \in Ids : \A k \in 1..Len(store[i].comments) :
        store[i].comments[k].isInternal
            => Role(store[i].comments[k].author) = "admin"

\* firstResponseAt and sla.responseTime, once set, are left as they are by
\* every operation
FirstResponseKept ==
    [][\A id \in Ids \cap DOMAIN store' :
          store[id].firstResponseAt # Null =>
              /\ store'[id].firstResponseAt = store[id].firstResponseAt
              /\ store'[id].sla.responseTime = store[id].sla.responseTime]_vars

\* C37: firstResponseAt and sla.responseTime keep their value once set, and
\* on a ticket with no recorded response only addComment sets them
\* (assignToAgent, resolve, reopen and addRating leave them unset).
C37_FirstResponseFrame ==
    [][\A id \in Ids \cap DOMAIN store' :
          /\ store[id].firstResponseAt # Null =>
                 /\ store'[id].firstResponseAt = store[id].firstResponseAt
                 /\ store'[id].sla.responseTime = store[id].sla.responseTime
          /\ (store[id].firstResponseAt = Null
              /\ store'[id].firstResponseAt # Null) =>
                 Called("addComment", id)]_vars

\* C38: once sla.breached is true for a ticket it is true in every later
\* state, whatever lifecycle operations follow.
C38_BreachedIsMonotone ==
    [][\A id \in Ids \cap DOMAIN store' :
          store[id].sla.breached => store'[id].sla.breached]_vars

\* a ticket flagged while late and unanswered has since been answered and
\* resolved, so that neither test of the hook holds any more, and is still
\* flagged
C38_Witness ==
    \E id \in Ids :
        /\ last.op = "resolve" /\ last.id = id /\ last.result = "ok"
        /\ store[id].status = "resolved"
        /\ store[id].firstResponseAt # Null
        /\ store[id].sla.breached

\* C39: every stored ticket with status closed has closedAt set and every
\* stored ticket with status resolved has resolution.resolvedAt set, whichever
\* operation gave it the status, the admin's update included.
C39_StatusHasItsTimestamp ==
    \A id \in Ids :
        /\ store[id].status = "closed" => store[id].closedAt # Null
        /\ store[id].status = "resolved" =>
               store[id].resolution.resolvedAt # Null

\* a ticket that a save has stored as resolved has resolution.resolvedAt set
SavedResolvedHasTimestamp ==
    [][\A id \in Ids : \A op \in SavingOps :
          (Called(op, id) /\ last'.result = "ok") =>
              /\ store'[id].status = "resolved" =>
                     store'[id].resolution.resolvedAt # Null
              /\ store'[id].status = "closed" =>
                     store'[id].closedAt # Null]_vars

====
